---- MODULE Spec2Model ----
(***************************************************************************)
(* Model of the convert_to_ome scripts:                                    *)
(*   - functions/lif_split_channels_to_ome.py : _safe and                  *)
(*     split_lif_to_channels (specification Spec, SafeSpec)                *)
(*   - convert_to_ome.py : convert_file_to_ome and                         *)
(*     convert_directory_to_ome (specification BatchSpec)                  *)
(* Strings are sequences of one-character strings, so that sanitising,     *)
(* formatting and path equality are computed character by character.       *)
(***************************************************************************)
EXTENDS Integers, Sequences, FiniteSets, TLC

VARIABLES
    \* ---- split_lif_to_channels ----
    args,                \* the call's arguments
    scenes,              \* img.scenes: the scene identifiers of the file
    pc,                  \* position in split_lif_to_channels
    err,                 \* the exception that left the function, or "none"
    dirs,                \* directories existing on disk
    disk,                \* files on disk: set of [path, by]
    opened,              \* BioImage(...) has been constructed
    base_channel_names,  \* file-level channel names (None or a list)
    cur,                 \* the library's current scene: dims and channel names
    sceneIdx,            \* index (1-based) of the scene of the for loop
    scene_names,         \* resolved names of the current scene
    t,                   \* loop variable t
    c,                   \* loop variable c
    written,             \* the list `written`
    wtuples,             \* history: the (scene, t, c) of each entry of written
    seen,                \* history: per visited scene, whether it was empty
    result,              \* the returned list, or None
    \* ---- _safe applied to an arbitrary name ----
    safeIn,
    safeOut,
    \* ---- convert_directory_to_ome ----
    listing,             \* os.listdir(directory_path)
    overwrite,           \* the overwrite flag
    bIdx,                \* index (1-based) of the file of the for loop
    bpc,                 \* position in convert_directory_to_ome
    outputs,             \* .ome.tif / _metadata.xml files on disk: [path, by]
    attempts,            \* history: per convert_file_to_ome call, what happened
    diagnostics          \* indexes whose "Failed to convert" line was printed

splitVars == <<args, scenes, pc, err, dirs, disk, opened, base_channel_names, cur,
               sceneIdx, scene_names, t, c, written, wtuples, seen, result>>
safeVars == <<safeIn, safeOut>>
batchVars == <<listing, overwrite, bIdx, bpc, outputs, attempts, diagnostics>>
vars == <<splitVars, safeVars, batchVars>>

\* Python's None, where a str is expected and where a list is expected (values
\* of one kind are compared with each other only).
None == <<"None">>
NoneList == << <<"NoneList">> >>

\* ------------------------------------------------------------------ bounds
MaxLen == 4      \* longest name handed to _safe in SafeSpec
MaxT == 2        \* largest T size the library reports
MaxC == 2        \* largest C size the library reports
MaxFiles == 2    \* longest directory listing

\* ------------------------------------------------------------- characters
AsciiAlnum ==
    {"a","b","c","d","e","f","g","h","i","j","k","l","m","n","o","p","q","r",
     "s","t","u","v","w","x","y","z",
     "A","B","C","D","E","F","G","H","I","J","K","L","M","N","O","P","Q","R",
     "S","T","U","V","W","X","Y","Z",
     "0","1","2","3","4","5","6","7","8","9"}

\* Non-ASCII alphanumerics: Python's \w on a str pattern is Unicode-aware.
UnicodeAlnum == {"é"}

\* \w of the pattern of _safe.
WordChar(ch) == ch \in AsciiAlnum \cup UnicodeAlnum \cup {"_"}

\* A character outside the negated class [^\w\-.] (one the substitution keeps).
KeptChar(ch) == WordChar(ch) \/ ch = "-" \/ ch = "."

RECURSIVE DropRun(_)
\* The rest of s after the maximal run of replaced characters at its front.
DropRun(s) ==
    IF s = <<>> \/ KeptChar(Head(s)) THEN s ELSE DropRun(Tail(s))

RECURSIVE ReSub(_)
\* re.sub(r"[^\w\-.]+", "_", s): every maximal run of characters outside the
\* class becomes one underscore.
ReSub(s) ==
    IF s = <<>> THEN <<>>
    ELSE IF KeptChar(Head(s)) THEN <<Head(s)>> \o ReSub(Tail(s))
    ELSE <<"_">> \o ReSub(DropRun(Tail(s)))

RECURSIVE LStrip(_)
LStrip(s) == IF s # <<>> /\ Head(s) = "_" THEN LStrip(Tail(s)) ELSE s

RECURSIVE RStrip(_)
RStrip(s) ==
    IF s # <<>> /\ s[Len(s)] = "_" THEN RStrip(SubSeq(s, 1, Len(s) - 1)) ELSE s

\* str.strip("_")
StripUnderscores(s) == RStrip(LStrip(s))

Unnamed == <<"u","n","n","a","m","e","d">>

RECURSIVE ReSubNoPlus(_)
\* (mutant) the pattern without "+": every replaced character becomes its own "_".
ReSubNoPlus(s) ==
    IF s = <<>> THEN <<>>
    ELSE IF KeptChar(Head(s)) THEN <<Head(s)>> \o ReSubNoPlus(Tail(s))
    ELSE <<"_">> \o ReSubNoPlus(Tail(s))

\* (mutant) _safe with the pattern lacking "+".
Safe_NoCollapse(name) ==
    LET r == StripUnderscores(ReSubNoPlus(name))
    IN  IF r = <<>> THEN Unnamed ELSE r

\* _safe(name)
Safe(name) ==
    LET r == StripUnderscores(ReSub(name))
    IN  IF r = <<>> THEN Unnamed ELSE r

\* Strings of length 0..n over alphabet A.
StringsUpTo(A, n) == UNION {[1..k -> A] : k \in 0..n}

\* ------------------------------------------------------ formatting helpers
DigitChars == <<"0","1","2","3","4","5","6","7","8","9">>

RECURSIVE Decimal(_)
\* str(n) for n >= 0
Decimal(n) ==
    IF n < 10 THEN <<DigitChars[n + 1]>>
    ELSE Decimal(n \div 10) \o <<DigitChars[(n % 10) + 1]>>

\* f"{c:02d}": at least two digits, zero-padded.
Fmt02d(n) == IF n < 10 THEN <<"0">> \o Decimal(n) ELSE Decimal(n)

\* Python truthiness of an Optional[str] and of an Optional[list]
Truthy(x) == x # None /\ x # <<>>
TruthyList(x) == x # NoneList /\ x # <<>>

\* ------------------------------------------------ split_lif_to_channels
\* lif_path.stem of the input path
Stem == <<"x">>

\* The values the arguments are drawn from.
OutdirArgs == {None, <<"o">>}
DTypes == {"native", "uint8", "int128"}
OverrideArgs == {NoneList, <<>>, << <<"G">> >>, << <<"G">>, <<"D", "/">> >>}
\* img.scenes of the files considered (scene identifiers are distinct; "A" and
\* "A/" sanitize to the same string).
SceneLists == { << <<"A">> >>, << <<"A", "/">> >>,
                << <<"A">>, <<"B">> >>, << <<"A">>, <<"A", "/">> >> }
\* The channel names the metadata may hold, cut to the scene's channel count (the
\* first and the third sanitize to the same string).
MetaLists == { << <<"D">>, <<"E", "/">>, <<"D", "/">>, <<"H">> >> }
\* Z sizes the library reports (0: an empty scene).
ZSizes == {0, 1}

\* What the library reports for one scene: the sizes nT = size_map.get("T", 1)
\* (1 also for a scene without a T label), nC, nZ, and img.channel_names (None when
\* absent or when reading it raises, else one name per channel).
SceneShapes ==
    { [nT |-> nt, nC |-> nc, nZ |-> nz, names |-> nm] :
        nt \in 1..MaxT, nc \in 0..MaxC, nz \in ZSizes,
        nm \in {NoneList} \cup {SubSeq(l, 1, k) : l \in MetaLists, k \in 0..MaxC} }

\* The metadata names one name per channel of the scene.
WellFormedShape(s) == s.names # NoneList => Len(s.names) = s.nC

NoScene == [nT |-> 0, nC |-> 0, nZ |-> 0, names |-> NoneList]

\* dtype_map.keys()
DtypeMapKeys == {"uint16", "uint8", "float32"}

\* outdir as resolved on line 96
Outdir ==
    IF args.outdir # None THEN args.outdir
    ELSE Stem \o <<"_","e","x","p","o","r","t">>

\* scene_dir = outdir / f"scene_{_safe(scene)}"
SceneDir(scene) == <<Outdir, <<"s","c","e","n","e","_">> \o Safe(scene)>>

\* override_names = list(channel_names) if channel_names else None
OverrideNames == IF TruthyList(args.channel_names) THEN args.channel_names ELSE NoneList

\* (mutant) metadata names win over the user's override.
ResolveNames_MetaFirst(scene_channel_names, nC) ==
    IF TruthyList(scene_channel_names) THEN scene_channel_names
    ELSE IF OverrideNames # NoneList
    THEN [i \in 1..nC |-> IF i <= Len(OverrideNames) THEN OverrideNames[i] ELSE None]
    ELSE [i \in 1..nC |-> None]

\* scene_names (lines 158-162)
ResolveNames(scene_channel_names, nC) ==
    IF OverrideNames # NoneList
    THEN [i \in 1..nC |-> IF i <= Len(OverrideNames) THEN OverrideNames[i] ELSE None]
    ELSE IF TruthyList(scene_channel_names) THEN scene_channel_names
    ELSE [i \in 1..nC |-> None]

\* ch_part (lines 178-182); ch is the 0-based channel index, ch < Len(names)
ChPart(names, ch) ==
    IF TruthyList(names) /\ Truthy(names[ch + 1])
    THEN <<"_","c","h","-">> \o Safe(names[ch + 1])
    ELSE <<"_","c">> \o Fmt02d(ch)

\* fname (line 184)
FileName(scene, chpart) ==
    Stem \o <<"_","s","c","e","n","e","-">> \o Safe(scene) \o chpart
         \o <<".","o","m","e",".","t","i","f">>

\* out_path = scene_dir / fname
OutPath(scene, chpart) == SceneDir(scene) \o <<FileName(scene, chpart)>>

\* The disk after OmeTiffWriter.save wrote path p for tuple tup (whole = FALSE: the
\* writer failed after it had opened p for writing).
DiskWith(p, tup, whole) ==
    {f \in disk : f.path # p} \cup {[path |-> p, by |-> tup, whole |-> whole]}

\* No list has been returned.
NotReturned == [returned |-> FALSE, paths |-> <<>>]

SplitIdle ==
    /\ args = [lif_exists |-> FALSE, outdir |-> None, dtype |-> "native",
               include_empty |-> FALSE, channel_names |-> NoneList]
    /\ scenes = <<>>
    /\ pc = "idle" /\ err = "none" /\ dirs = {} /\ disk = {} /\ opened = FALSE
    /\ base_channel_names = NoneList /\ cur = NoScene /\ sceneIdx = 0
    /\ scene_names = NoneList /\ t = 0 /\ c = 0
    /\ written = <<>> /\ wtuples = <<>> /\ seen = <<>> /\ result = NotReturned

SafeIdle == safeIn = <<>> /\ safeOut = None

BatchIdle ==
    /\ listing = <<>> /\ overwrite = FALSE /\ bIdx = 0 /\ bpc = "idle"
    /\ outputs = {} /\ attempts = <<>> /\ diagnostics = {}

\* The state when split_lif_to_channels is called: a fresh output location.
SplitInit ==
    /\ args \in [lif_exists : BOOLEAN, outdir : OutdirArgs, dtype : DTypes,
                 include_empty : BOOLEAN, channel_names : OverrideArgs]
    /\ scenes \in SceneLists
    /\ pc = "start" /\ err = "none" /\ dirs = {} /\ disk = {} /\ opened = FALSE
    /\ base_channel_names = NoneList /\ cur = NoScene /\ sceneIdx = 0
    /\ scene_names = NoneList /\ t = 0 /\ c = 0
    /\ written = <<>> /\ wtuples = <<>> /\ seen = <<>> /\ result = NotReturned

\* Leaving the function by an exception.
Raise(e) == pc' = "raised" /\ err' = e

\* (mutant) the output directory is created before the input is checked.
CheckInput_MkdirFirst ==
    /\ pc = "start"
    /\ dirs' = dirs \cup {<<Outdir>>}
    /\ IF ~args.lif_exists THEN Raise("FileNotFoundError")
       ELSE pc' = "open" /\ err' = err
    /\ UNCHANGED <<args, scenes, disk, opened, base_channel_names, cur, sceneIdx,
                   scene_names, t, c, written, wtuples, seen, result>>
    /\ UNCHANGED <<safeVars, batchVars>>

\* lines 92-97: the existence check, then outdir.mkdir(parents=True, exist_ok=True)
CheckInput ==
    /\ pc = "start"
    /\ IF ~args.lif_exists
       THEN Raise("FileNotFoundError") /\ dirs' = dirs
       ELSE pc' = "open" /\ err' = err /\ dirs' = dirs \cup {<<Outdir>>}
    /\ UNCHANGED <<args, scenes, disk, opened, base_channel_names, cur, sceneIdx,
                   scene_names, t, c, written, wtuples, seen, result>>
    /\ UNCHANGED <<safeVars, batchVars>>

\* lines 100-115: BioImage(...) succeeds; the handle stands on the first scene,
\* whose channel names become base_channel_names.
OpenImage ==
    /\ pc = "open"
    /\ \E s \in SceneShapes :
        /\ WellFormedShape(s)
        /\ cur' = s
        /\ base_channel_names' = s.names
    /\ opened' = TRUE
    /\ pc' = "dtype"
    /\ UNCHANGED <<args, scenes, err, dirs, disk, sceneIdx, scene_names, t, c,
                   written, wtuples, seen, result>>
    /\ UNCHANGED <<safeVars, batchVars>>

\* line 100: BioImage(...) raises (the file cannot be decoded).
OpenFails ==
    /\ pc = "open"
    /\ Raise("DecodeError")
    /\ UNCHANGED <<args, scenes, dirs, disk, opened, base_channel_names, cur,
                   sceneIdx, scene_names, t, c, written, wtuples, seen, result>>
    /\ UNCHANGED <<safeVars, batchVars>>

\* lines 124-127: the dtype check, after the directory and the handle exist.
CheckDtype ==
    /\ pc = "dtype"
    /\ IF args.dtype # "native" /\ args.dtype \notin DtypeMapKeys
       THEN Raise("ValueError") /\ sceneIdx' = sceneIdx
       ELSE pc' = "scenes" /\ err' = err /\ sceneIdx' = 1
    /\ UNCHANGED <<args, scenes, dirs, disk, opened, base_channel_names, cur,
                   scene_names, t, c, written, wtuples, seen, result>>
    /\ UNCHANGED <<safeVars, batchVars>>

\* (mutant) only a scene without channels is skipped.
SkipScene_COnly(shape) == shape.nC = 0 /\ ~args.include_empty

\* line 149: the scene is empty and empty scenes are not kept.
SkipScene(shape) == (shape.nC = 0 \/ shape.nZ = 0) /\ ~args.include_empty

\* lines 129-164: the next scene of the for loop: set_scene, the scene directory,
\* the sizes, the channel names, the skip of an empty scene, scene_names.
NextScene ==
    /\ pc = "scenes"
    /\ sceneIdx <= Len(scenes)
    /\ \E s \in SceneShapes :
        /\ WellFormedShape(s)
        /\ (sceneIdx = 1 => s = cur)      \* the handle already stands on scenes[0]
        /\ cur' = s
        /\ seen' = Append(seen, s.nC = 0 \/ s.nZ = 0)
        /\ LET scene_channel_names ==
                   IF s.names # NoneList THEN s.names ELSE base_channel_names
           IN  IF SkipScene(s)
               THEN /\ pc' = "scenes" /\ sceneIdx' = sceneIdx + 1
                    /\ UNCHANGED <<scene_names, t, c>>
               ELSE /\ scene_names' = ResolveNames(scene_channel_names, s.nC)
                    /\ IF s.nC = 0
                       THEN /\ pc' = "scenes" /\ sceneIdx' = sceneIdx + 1
                            /\ t' = s.nT - 1 /\ c' = c
                       ELSE /\ pc' = "loop" /\ sceneIdx' = sceneIdx
                            /\ t' = 0 /\ c' = 0
    /\ dirs' = dirs \cup {SceneDir(scenes[sceneIdx])}
    /\ UNCHANGED <<args, scenes, err, disk, opened, base_channel_names, written,
                   wtuples, result>>
    /\ UNCHANGED <<safeVars, batchVars>>

\* The for loops over t and c move on (or the scene's loops end).
Advance ==
    IF c + 1 < cur.nC
    THEN pc' = "loop" /\ sceneIdx' = sceneIdx /\ t' = t /\ c' = c + 1
    ELSE IF t + 1 < cur.nT
    THEN pc' = "loop" /\ sceneIdx' = sceneIdx /\ t' = t + 1 /\ c' = 0
    ELSE pc' = "scenes" /\ sceneIdx' = sceneIdx + 1 /\ t' = t /\ c' = c

\* scene_names[c] is evaluated and c is past the end of the list.
NameIndexOutOfRange == TruthyList(scene_names) /\ c + 1 > Len(scene_names)

\* out_path of the iteration (t, c) of the current scene
CurPath == OutPath(scenes[sceneIdx], ChPart(scene_names, c))

\* (mutant) the path is recorded although nothing was written.
WriteChannel_NoSave ==
    /\ pc = "loop"
    /\ ~NameIndexOutOfRange
    /\ disk' = disk
    /\ written' = Append(written, CurPath)
    /\ wtuples' = Append(wtuples, <<sceneIdx, t, c>>)
    /\ Advance
    /\ UNCHANGED <<args, scenes, err, dirs, opened, base_channel_names, cur,
                   scene_names, seen, result>>
    /\ UNCHANGED <<safeVars, batchVars>>

\* lines 166-195, one iteration: the stack is read and cast, the name derived,
\* OmeTiffWriter.save succeeds and the path is appended to written.
WriteChannel ==
    /\ pc = "loop"
    /\ ~NameIndexOutOfRange
    /\ disk' = DiskWith(CurPath, <<sceneIdx, t, c>>, TRUE)
    /\ written' = Append(written, CurPath)
    /\ wtuples' = Append(wtuples, <<sceneIdx, t, c>>)
    /\ Advance
    /\ UNCHANGED <<args, scenes, err, dirs, opened, base_channel_names, cur,
                   scene_names, seen, result>>
    /\ UNCHANGED <<safeVars, batchVars>>

\* lines 187-192: OmeTiffWriter.save raises. The writer belongs to the library:
\* it may fail before touching out_path or after it has opened it for writing.
WriteFails ==
    /\ pc = "loop"
    /\ ~NameIndexOutOfRange
    /\ Raise("WriteError")
    /\ \/ disk' = disk
       \/ disk' = DiskWith(CurPath, <<sceneIdx, t, c>>, FALSE)
    /\ UNCHANGED <<args, scenes, dirs, opened, base_channel_names, cur, sceneIdx,
                   scene_names, t, c, written, wtuples, seen, result>>
    /\ UNCHANGED <<safeVars, batchVars>>

\* line 179: scene_names[c] raises IndexError (the stack was read already).
NameLookupFails ==
    /\ pc = "loop"
    /\ NameIndexOutOfRange
    /\ Raise("IndexError")
    /\ UNCHANGED <<args, scenes, dirs, disk, opened, base_channel_names, cur,
                   sceneIdx, scene_names, t, c, written, wtuples, seen, result>>
    /\ UNCHANGED <<safeVars, batchVars>>

\* lines 197-198: every scene was visited; written is returned.
Return ==
    /\ pc = "scenes"
    /\ sceneIdx = Len(scenes) + 1
    /\ pc' = "done"
    /\ result' = [returned |-> TRUE, paths |-> written]
    /\ UNCHANGED <<args, scenes, err, dirs, disk, opened, base_channel_names, cur,
                   sceneIdx, scene_names, t, c, written, wtuples, seen>>
    /\ UNCHANGED <<safeVars, batchVars>>

Init == SplitInit /\ SafeIdle /\ BatchIdle

Next ==
    \/ CheckInput
    \/ OpenImage
    \/ OpenFails
    \/ CheckDtype
    \/ NextScene
    \/ WriteChannel
    \/ WriteFails
    \/ NameLookupFails
    \/ Return

Spec == Init /\ [][Next]_vars

\* ------------------------------------------------- _safe on arbitrary names
\* Characters names are built from: an ASCII letter, the underscore, the two
\* punctuation characters of the class, a blank, a slash, a non-ASCII letter.
SafeAlphabet == {"a", "_", "-", ".", " ", "/", "é"}

SafeInit ==
    /\ SplitIdle /\ BatchIdle
    /\ safeIn \in StringsUpTo(SafeAlphabet, MaxLen)
    /\ safeOut = None

\* A call _safe(safeIn)
ApplySafe ==
    /\ safeOut = None
    /\ safeOut' = Safe(safeIn)
    /\ UNCHANGED <<safeIn, splitVars, batchVars>>

SafeNext == ApplySafe

SafeSpec == SafeInit /\ [][SafeNext]_vars

\* ------------------------------------------------ convert_directory_to_ome
UpperChars == <<"A","B","C","D","E","F","G","H","I","J","K","L","M","N","O","P",
                "Q","R","S","T","U","V","W","X","Y","Z">>
LowerChars == <<"a","b","c","d","e","f","g","h","i","j","k","l","m","n","o","p",
                "q","r","s","t","u","v","w","x","y","z">>

\* str.lower() of one character
LowerChar(ch) ==
    IF \E i \in 1..26 : UpperChars[i] = ch
    THEN LowerChars[CHOOSE i \in 1..26 : UpperChars[i] = ch]
    ELSE ch

\* str.lower()
Lower(s) == [i \in 1..Len(s) |-> LowerChar(s[i])]

\* str.endswith(suffix)
EndsWith(s, suffix) ==
    /\ Len(s) >= Len(suffix)
    /\ SubSeq(s, Len(s) - Len(suffix) + 1, Len(s)) = suffix

\* line 39: file_name.lower().endswith(('.nd2', '.czi'))
IsInputName(file_name) ==
    \/ EndsWith(Lower(file_name), <<".","n","d","2">>)
    \/ EndsWith(Lower(file_name), <<".","c","z","i">>)

\* os.path.splitext(p)[0]: p up to its last dot, unless only dots precede it.
SplitExtRoot(p) ==
    LET dots == {i \in 1..Len(p) : p[i] = "."}
        k == IF dots = {} THEN 0 ELSE CHOOSE i \in dots : \A j \in dots : j <= i
    IN  IF k > 0 /\ (\E j \in 1..(k - 1) : p[j] # ".") THEN SubSeq(p, 1, k - 1) ELSE p

\* ome_tiff_path and metadata_path (lines 14-15)
OmeTiffPath(file_path) == SplitExtRoot(file_path) \o <<".","o","m","e",".","t","i","f">>
MetadataPath(file_path) ==
    SplitExtRoot(file_path) \o <<"_","m","e","t","a","d","a","t","a",".","x","m","l">>

\* Names a directory may hold.
FileNames == { <<"a",".","n","d","2">>, <<"a",".","C","Z","I">>,
               <<"b",".","c","z","i">>, <<"b",".","t","x","t">> }

\* os.listdir: distinct names, in any order.
Listings ==
    { l \in StringsUpTo(FileNames, MaxFiles) :
        \A i, j \in 1..Len(l) : i # j => l[i] # l[j] }

\* Output files that may exist before the run (by = 0: not written by this run).
PreExisting ==
    SUBSET { [path |-> OmeTiffPath(n), by |-> 0, whole |-> TRUE] : n \in FileNames }

BatchInit ==
    /\ SplitIdle /\ SafeIdle
    /\ listing \in Listings
    /\ overwrite \in BOOLEAN
    /\ outputs \in PreExisting
    /\ bIdx = 1 /\ bpc = "loop" /\ attempts = <<>> /\ diagnostics = {}

\* os.path.exists(p)
Exists(p) == \E f \in outputs : f.path = p

\* The files after path p was written by the call for listing[bIdx].
OutputsWith(fs, p, whole) ==
    {f \in fs : f.path # p} \cup {[path |-> p, by |-> bIdx, whole |-> whole]}

\* (mutant) an exception of convert_file_to_ome ends the directory loop.
AfterFile_Propagate(outcome) ==
    /\ attempts' = Append(attempts,
                     [idx |-> bIdx, existed |-> Exists(OmeTiffPath(listing[bIdx])),
                      outcome |-> outcome])
    /\ IF outcome \in {"open_failed", "save_failed", "metadata_failed"}
       THEN bpc' = "raised" /\ bIdx' = bIdx /\ diagnostics' = diagnostics
       ELSE bpc' = bpc /\ bIdx' = bIdx + 1 /\ diagnostics' = diagnostics

\* convert_file_to_ome returns (lines 19, 32) or its except clause prints the
\* diagnostic (lines 33-34); the for loop of line 38 moves on.
AfterFile(outcome) ==
    /\ attempts' = Append(attempts,
                     [idx |-> bIdx, existed |-> Exists(OmeTiffPath(listing[bIdx])),
                      outcome |-> outcome])
    /\ diagnostics' =
         IF outcome \in {"open_failed", "save_failed", "metadata_failed"}
         THEN diagnostics \cup {bIdx} ELSE diagnostics
    /\ bpc' = bpc
    /\ bIdx' = bIdx + 1

\* line 17 negated: the conversion goes on to save.
MaySave(file_path) == ~(Exists(OmeTiffPath(file_path)) /\ ~overwrite)

\* The file of the loop is one convert_file_to_ome is called on.
AtInputFile == bpc = "loop" /\ bIdx <= Len(listing) /\ IsInputName(listing[bIdx])

\* line 39 false: the name is neither .nd2 nor .czi.
SkipOtherFile ==
    /\ bpc = "loop" /\ bIdx <= Len(listing) /\ ~IsInputName(listing[bIdx])
    /\ bIdx' = bIdx + 1
    /\ UNCHANGED <<listing, overwrite, bpc, outputs, attempts, diagnostics>>
    /\ UNCHANGED <<splitVars, safeVars>>

\* line 13 raises.
ConvertOpenFails ==
    /\ AtInputFile
    /\ AfterFile("open_failed")
    /\ UNCHANGED <<listing, overwrite, outputs>>
    /\ UNCHANGED <<splitVars, safeVars>>

\* lines 17-19: the output exists and overwrite is off.
ConvertSkipsExisting ==
    /\ AtInputFile
    /\ ~MaySave(listing[bIdx])
    /\ AfterFile("skipped")
    /\ UNCHANGED <<listing, overwrite, outputs>>
    /\ UNCHANGED <<splitVars, safeVars>>

\* line 22 raises; the writer may have begun the file.
ConvertSaveFails ==
    /\ AtInputFile
    /\ MaySave(listing[bIdx])
    /\ \/ outputs' = outputs
       \/ outputs' = OutputsWith(outputs, OmeTiffPath(listing[bIdx]), FALSE)
    /\ AfterFile("save_failed")
    /\ UNCHANGED <<listing, overwrite>>
    /\ UNCHANGED <<splitVars, safeVars>>

\* line 22 succeeds, then one of lines 25-30 raises; the metadata file may have
\* been begun.
ConvertMetadataFails ==
    /\ AtInputFile
    /\ MaySave(listing[bIdx])
    /\ LET saved == OutputsWith(outputs, OmeTiffPath(listing[bIdx]), TRUE)
       IN  \/ outputs' = saved
           \/ outputs' = OutputsWith(saved, MetadataPath(listing[bIdx]), FALSE)
    /\ AfterFile("metadata_failed")
    /\ UNCHANGED <<listing, overwrite>>
    /\ UNCHANGED <<splitVars, safeVars>>

\* lines 13-32 without an exception.
ConvertOk ==
    /\ AtInputFile
    /\ MaySave(listing[bIdx])
    /\ outputs' = OutputsWith(OutputsWith(outputs, OmeTiffPath(listing[bIdx]), TRUE),
                              MetadataPath(listing[bIdx]), TRUE)
    /\ AfterFile("converted")
    /\ UNCHANGED <<listing, overwrite>>
    /\ UNCHANGED <<splitVars, safeVars>>

\* The for loop of line 38 is exhausted.
BatchDone ==
    /\ bpc = "loop" /\ bIdx = Len(listing) + 1
    /\ bpc' = "done"
    /\ UNCHANGED <<listing, overwrite, bIdx, outputs, attempts, diagnostics>>
    /\ UNCHANGED <<splitVars, safeVars>>

BatchNext ==
    \/ SkipOtherFile
    \/ ConvertOpenFails
    \/ ConvertSkipsExisting
    \/ ConvertSaveFails
    \/ ConvertMetadataFails
    \/ ConvertOk
    \/ BatchDone

BatchSpec == BatchInit /\ [][BatchNext]_vars

\* ====================================================================
\* Properties of split_lif_to_channels (specification Spec)
\* ====================================================================

\* The files on disk at path p.
FilesAt(fs, p) == {f \in fs : f.path = p}

\* C1: every (scene, t, c) tuple of a run gets its own output path: no two entries
\* of written (one per tuple, in write order) are the same path, so no write of
\* the run lands on a file written earlier in the run.
C1_DistinctPathPerTuple ==
    \A i, j \in 1..Len(written) : i # j => written[i] # written[j]

\* C2: when the unsupported-dtype error is raised, no directory has been created
\* and the image handle has not been opened: the disk is as before the call.
C2_BadDtypeBeforeAnyEffect ==
    err = "ValueError" => (dirs = {} /\ disk = {} /\ ~opened /\ sceneIdx = 0)

\* C3: a missing input raises the not-found error; neither the explicit outdir nor
\* the default <stem>_export directory is created, the image handle is never
\* opened and nothing is written.
C3_MissingInputNoEffect ==
    /\ (pc # "start" /\ ~args.lif_exists) =>
          (pc = "raised" /\ err = "FileNotFoundError")
    /\ err = "FileNotFoundError" =>
          /\ ~args.lif_exists
          /\ dirs = {} /\ disk = {} /\ ~opened /\ ~result.returned

\* C3 witness: the error was raised for a call that named an output directory.
C3_Witness ==
    pc = "raised" /\ err = "FileNotFoundError" /\ args.outdir # None

\* C4: while the timepoint/channel loop of a scene runs, scene_names has exactly
\* as many entries as the scene has channels, whatever the names came from.
C4_NamesMatchChannelCount ==
    pc = "loop" => Len(scene_names) = cur.nC

\* C5: when the function has returned, every returned path is a file on disk,
\* written whole by a tuple of this run, whose name ends in .ome.tif.
C5_ReturnedPathsExist ==
    result.returned =>
        \A i \in 1..Len(result.paths) :
            /\ \E f \in disk :
                  /\ f.path = result.paths[i]
                  /\ f.whole
                  /\ \E k \in 1..Len(wtuples) : wtuples[k] = f.by
            /\ EndsWith(result.paths[i][Len(result.paths[i])],
                        <<".","o","m","e",".","t","i","f">>)

\* C5 witness: a run returned at least two paths.
C5_Witness == result.returned /\ Len(result.paths) >= 2

\* C6: with include_empty off, a scene with C = 0 or Z = 0 has no file on disk and
\* no entry in written or in the returned list, and the scenes after it are still
\* visited: a run that returns has visited every scene.
C6_EmptySceneSkipped ==
    /\ ~args.include_empty =>
          \A i \in 1..Len(seen) :
              seen[i] =>
                  /\ \A k \in 1..Len(wtuples) : wtuples[k][1] # i
                  /\ \A f \in disk : f.by[1] # i
    /\ Len(wtuples) = Len(written)
    /\ result.returned => (result.paths = written /\ Len(seen) = Len(scenes))

\* C6 witness: the first scene was empty with channels present (Z = 0) and was
\* skipped, and the second scene was written and returned.
C6_Witness ==
    /\ result.returned /\ ~args.include_empty
    /\ seen = <<TRUE, FALSE>>
    /\ base_channel_names # NoneList /\ Len(base_channel_names) > 0
    /\ Len(result.paths) > 0

\* The file name the override list names[] asks for, for 0-based channel ch of
\* scene id scene (no requirement where names[ch] is an empty string).
OverrideFileNameOk(fname, scene, names, ch) ==
    LET head == Stem \o <<"_","s","c","e","n","e","-">> \o Safe(scene)
        tail == <<".","o","m","e",".","t","i","f">>
    IN  /\ (ch < Len(names) /\ names[ch + 1] # <<>>) =>
              fname = head \o <<"_","c","h","-">> \o Safe(names[ch + 1]) \o tail
        /\ ch >= Len(names) =>
              fname = head \o <<"_","c">> \o Fmt02d(ch) \o tail

\* Every file written so far carries the part the override list asks for.
OverrideHonoured ==
    \A k \in 1..Len(written) :
        OverrideFileNameOk(written[k][3], scenes[wtuples[k][1]],
                           args.channel_names, wtuples[k][3])

C9_WriteFailureKeepsEarlierFiles ==
    [][ /\ (err = "none" /\ err' = "WriteError") =>
              /\ pc' = "raised" /\ ~result'.returned
              /\ written' = written
              /\ \A i \in 1..Len(written) :
                    FilesAt(disk', written[i]) = FilesAt(disk, written[i])
        /\ err = "WriteError" => UNCHANGED splitVars ]_vars

\* ====================================================================
\* Properties of _safe (specification SafeSpec)
\* ====================================================================

\* The characters of [A-Za-z0-9_.-]
AsciiSafeChar(ch) == ch \in AsciiAlnum \cup {"_", ".", "-"}

\* Punctuation characters of the alphabet.
Punctuation == {"_", "-", ".", "/"}

\* Positions of s holding a kept character other than the underscore.
SolidAt(s) == {i \in 1..Len(s) : KeptChar(s[i]) /\ s[i] # "_"}

\* The sanitised name, stated by positions: between the first and the last solid
\* character, kept characters stay and each maximal run of others is one "_".
Sanitised(s) ==
    IF SolidAt(s) = {} THEN Unnamed
    ELSE LET lo == CHOOSE i \in SolidAt(s) : \A j \in SolidAt(s) : i <= j
             hi == CHOOSE i \in SolidAt(s) : \A j \in SolidAt(s) : j <= i
             idx == {i \in lo..hi : KeptChar(s[i]) \/ KeptChar(s[i - 1])}
             nth(k) == CHOOSE i \in idx : Cardinality({j \in idx : j <= i}) = k
         IN  [k \in 1..Cardinality(idx) |->
                 IF KeptChar(s[nth(k)]) THEN s[nth(k)] ELSE "_"]

\* C8 as stated: the result is non-empty, made only of [A-Za-z0-9_.-], is the name
\* with runs of other characters collapsed to "_" and outer underscores stripped,
\* and a name of punctuation characters only becomes "unnamed".
C8_SafeAsciiOnly ==
    safeOut # None =>
        /\ safeOut # <<>>
        /\ \A i \in 1..Len(safeOut) : AsciiSafeChar(safeOut[i])
        /\ safeOut = Sanitised(safeIn)
        /\ (safeIn # <<>> /\ \A i \in 1..Len(safeIn) : safeIn[i] \in Punctuation)
              => safeOut = Unnamed

\* C8 amended: the result is non-empty, made only of word characters (letters and
\* digits of any script, "_"), "." and "-"; it is the name with runs of other
\* characters collapsed to "_" and outer underscores stripped; a name without any
\* letter, digit, "." or "-" becomes "unnamed"; "Red/Green 1" becomes
\* "Red_Green_1".
C8_SafeWordChars ==
    /\ safeOut # None =>
        /\ safeOut # <<>>
        /\ \A i \in 1..Len(safeOut) : KeptChar(safeOut[i])
        /\ safeOut[1] # "_" /\ safeOut[Len(safeOut)] # "_"
        /\ safeOut = Sanitised(safeIn)
        /\ (\A i \in 1..Len(safeIn) : safeIn[i] \in {"_", " ", "/"})
              => safeOut = Unnamed
    /\ Safe(<<"R","e","d","/","G","r","e","e","n"," ","1">>)
          = <<"R","e","d","_","G","r","e","e","n","_","1">>

\* C8 witness: a run of two replaced characters inside a name became one "_".
C8_Witness ==
    safeIn = <<"a", "/", " ", "a">> /\ safeOut = <<"a", "_", "a">>

\* ====================================================================
\* Properties of convert_directory_to_ome (specification BatchSpec)
\* ====================================================================

\* The spellings of the two extensions, whatever the case.
InputExtensions ==
    { <<".", n, d, "2">> : n \in {"n", "N"}, d \in {"d", "D"} }
    \cup { <<".", x, y, z>> : x \in {"c", "C"}, y \in {"z", "Z"}, z \in {"i", "I"} }

\* The name ends in .nd2 or .czi, case-insensitively.
HasInputExtension(name) ==
    Len(name) >= 4 /\ SubSeq(name, Len(name) - 3, Len(name)) \in InputExtensions

\* C10: once the directory loop has ended, convert_file_to_ome was attempted on
\* exactly the .nd2/.czi files, in listing order; each failure (open, save,
\* metadata) printed a diagnostic and the later files were still attempted; a file
\* whose .ome.tif existed with overwrite off was not written.
C10_BatchContinues ==
    /\ bpc \notin {"idle", "loop"} =>
          /\ bpc = "done"
          /\ {attempts[k].idx : k \in 1..Len(attempts)}
                = {i \in 1..Len(listing) : HasInputExtension(listing[i])}
    /\ \A k \in 1..Len(attempts) :
          /\ \A m \in 1..(k - 1) : attempts[m].idx < attempts[k].idx
          /\ (attempts[k].outcome \in {"open_failed", "save_failed", "metadata_failed"})
                <=> attempts[k].idx \in diagnostics
          /\ (attempts[k].existed /\ ~overwrite) =>
                /\ attempts[k].outcome \in {"skipped", "open_failed"}
                /\ \A f \in outputs : f.by # attempts[k].idx

\* C10 witness: the first file failed while saving, the second was converted, and
\* the loop ended.
C10_Witness ==
    /\ bpc = "done" /\ Len(attempts) = 2
    /\ attempts[1].outcome = "save_failed"
    /\ attempts[2].outcome = "converted"
    /\ diagnostics = {attempts[1].idx}

====
